---------------------------- MODULE Spec2Model ----------------------------
(***************************************************************************)
(* NeverMiss Lite (src/streamlit_app.py): a Streamlit script that parses   *)
(* free text into a reminder draft, lets the user review it, and keeps     *)
(* reminders in reminders.csv through pandas.                               *)
(*                                                                         *)
(* A text is a sequence of characters (one-character strings; an           *)
(* enumerated word such as "pending" is kept as one chunk).  A Python      *)
(* value is a record [k, s]: k is "none" (None), "nan" (pandas' missing    *)
(* value), "absent" (a dict without that key) or "str" (a string s).       *)
(* The CSV file is a sequence of rows of cells; a cell is the text between *)
(* two delimiters (csv quoting round-trips any text, so it is not          *)
(* modelled; what is modelled is which cell a value is written as and      *)
(* which value a cell is read as).                                         *)
(*                                                                         *)
(* Each user action reruns the whole script; an action below is one such   *)
(* run.  The values the user has put into the review form are an input of  *)
(* the Save run.  Line 260 of the source has lost its indentation under    *)
(* the "if" of line 259; it is read as that statement's body (it only      *)
(* renders the notes and changes no state).                                *)
(***************************************************************************)
EXTENDS Integers, Sequences, FiniteSets, TLC

VARIABLES
    file,             \* reminders.csv: sequence of rows of cells
    parsed_reminder,  \* st.session_state.parsed_reminder
    api_enabled,      \* st.session_state.api_enabled
    user_input,       \* the text area "reminder_input"
    form,             \* the review form's widget values in the last run
    parsed,           \* what parse_with_gemini returned in the last run
    parsed_from,      \* the text that was parsed into parsed_reminder
    api_calls,        \* generate_content calls made by the last run
    day,              \* days elapsed on the clock since StartDate
    msg,              \* the st.error / st.success message of the last run
    hist              \* store API only: the last two operations applied

vars == <<file, parsed_reminder, api_enabled, user_input, form, parsed,
          parsed_from, api_calls, day, msg, hist>>

---------------------------------------------------------------------------
(* Bounds *)

MaxRows == 2
MaxDay == 1

---------------------------------------------------------------------------
(* Texts *)

EmptyText == <<>>
Blank == <<" ">>
TextA == <<"a">>
TextB == <<"b">>
TextPadA == <<" ", "a">>
TextNotes == <<"n">>
DateD == <<"2", "0", "2", "4", "-", "0", "2", "-", "2", "8">>
DateGarbage == <<"s", "o", "o", "n">>
DatePartial == <<"2", "0", "2", "4", "-", "0", "2">>
TimeT == <<"1", "5", ":", "0", "0">>
NullText == <<"n", "u", "l", "l">>
NAText == <<"N", "A">>

Whitespace == {" ", "\t", "\n"}

DigitChars == <<"0", "1", "2", "3", "4", "5", "6", "7", "8", "9">>

IsDigit(c) == \E i \in 1..10 : DigitChars[i] = c

DigitVal(c) == (CHOOSE i \in 1..10 : DigitChars[i] = c) - 1

RECURSIVE LStrip(_)
LStrip(t) ==
    IF t # <<>> /\ Head(t) \in Whitespace THEN LStrip(Tail(t)) ELSE t

RECURSIVE RStrip(_)
RStrip(t) ==
    IF t # <<>> /\ t[Len(t)] \in Whitespace
    THEN RStrip(SubSeq(t, 1, Len(t) - 1))
    ELSE t

\* str.strip()
Strip(t) == RStrip(LStrip(t))

RECURSIVE IntToText(_)
IntToText(n) ==
    IF n < 10 THEN <<DigitChars[n + 1]>>
    ELSE IntToText(n \div 10) \o <<DigitChars[(n % 10) + 1]>>

RECURSIVE TextToInt(_)
TextToInt(t) ==
    IF t = <<>> THEN 0
    ELSE TextToInt(SubSeq(t, 1, Len(t) - 1)) * 10 + DigitVal(t[Len(t)])

---------------------------------------------------------------------------
(* Python values *)

NoneV == [k |-> "none", s |-> <<>>]
NaN == [k |-> "nan", s |-> <<>>]
Absent == [k |-> "absent", s |-> <<>>]
Str(t) == [k |-> "str", s |-> t]

\* pd.isna
IsNa(v) == v.k \in {"none", "nan", "absent"}

\* Python truthiness of a value: None and "" are falsy, NaN is truthy
Truthy(v) == v.k = "nan" \/ (v.k = "str" /\ v.s # <<>>)

\* x or ""
OrEmpty(v) == IF Truthy(v) /\ v.k = "str" THEN v.s ELSE <<>>

---------------------------------------------------------------------------
(* The clock *)

StartDate == <<2024, 2, 28>>

IsLeap(y) == (y % 4 = 0 /\ y % 100 # 0) \/ y % 400 = 0

DaysInMonth(y, m) ==
    IF m = 2 THEN (IF IsLeap(y) THEN 29 ELSE 28)
    ELSE IF m \in {4, 6, 9, 11} THEN 30 ELSE 31

NextDay(d) ==
    IF d[3] < DaysInMonth(d[1], d[2]) THEN <<d[1], d[2], d[3] + 1>>
    ELSE IF d[2] < 12 THEN <<d[1], d[2] + 1, 1>>
    ELSE <<d[1] + 1, 1, 1>>

RECURSIVE AddDays(_, _)
AddDays(d, n) == IF n = 0 THEN d ELSE AddDays(NextDay(d), n - 1)

\* datetime.now().date()
Today == AddDays(StartDate, day)

Fmt2(n) == <<DigitChars[(n \div 10) + 1], DigitChars[(n % 10) + 1]>>

Fmt4(n) == Fmt2(n \div 100) \o Fmt2(n % 100)

\* date.isoformat()
FormatDate(d) == Fmt4(d[1]) \o <<"-">> \o Fmt2(d[2]) \o <<"-">> \o Fmt2(d[3])

\* datetime.now().isoformat(), the clock read at midnight
NowIso == FormatDate(Today) \o <<"T", "00:00:00">>

InvalidDate == <<0, 0, 0>>

\* datetime.fromisoformat(text).date() for texts of at most ten characters;
\* InvalidDate where it raises
FromIso(t) ==
    IF /\ Len(t) = 10
       /\ \A i \in {1, 2, 3, 4, 6, 7, 9, 10} : IsDigit(t[i])
       /\ t[5] = "-" /\ t[8] = "-"
    THEN LET y == TextToInt(SubSeq(t, 1, 4))
             m == TextToInt(SubSeq(t, 6, 7))
             d == TextToInt(SubSeq(t, 9, 10))
         IN IF y >= 1 /\ m \in 1..12 /\ d >= 1 /\ d <= DaysInMonth(y, m)
            THEN <<y, m, d>> ELSE InvalidDate
    ELSE InvalidDate

DateBefore(a, b) ==
    \/ a[1] < b[1]
    \/ a[1] = b[1] /\ a[2] < b[2]
    \/ a[1] = b[1] /\ a[2] = b[2] /\ a[3] < b[3]

\* is_overdue(date_str), the clock reading `today`
is_overdue(v, today) ==
    IF ~Truthy(v) \/ (v.k = "str" /\ v.s = NullText) \/ IsNa(v) THEN FALSE
    ELSE LET d == FromIso(v.s)
         IN d # InvalidDate /\ DateBefore(d, today)

---------------------------------------------------------------------------
(* The CSV encoding: DataFrame.to_csv and pd.read_csv *)

\* the default na_values of pd.read_csv that the model's texts can spell
NaValues == {EmptyText, NAText, NullText}

\* to_csv: a missing value is written as the empty cell (na_rep = "")
ToCell(v) == IF IsNa(v) THEN <<>> ELSE v.s

\* read_csv: an empty cell and the NA spellings are read as NaN
FromCell(c) == IF c \in NaValues THEN NaN ELSE Str(c)

ToCsvRow(r) ==
    [reminder_id |-> IntToText(r.reminder_id),
     raw_input |-> ToCell(r.raw_input), title |-> ToCell(r.title),
     category |-> ToCell(r.category), date |-> ToCell(r.date),
     time |-> ToCell(r.time), priority |-> ToCell(r.priority),
     notes |-> ToCell(r.notes), status |-> ToCell(r.status),
     created_at |-> ToCell(r.created_at)]

FromCsvRow(c) ==
    [reminder_id |-> TextToInt(c.reminder_id),
     raw_input |-> FromCell(c.raw_input), title |-> FromCell(c.title),
     category |-> FromCell(c.category), date |-> FromCell(c.date),
     time |-> FromCell(c.time), priority |-> FromCell(c.priority),
     notes |-> FromCell(c.notes), status |-> FromCell(c.status),
     created_at |-> FromCell(c.created_at)]

to_csv(df) == [i \in 1..Len(df) |-> ToCsvRow(df[i])]

\* load_reminders(): an absent file is the empty table
load_reminders(f) == [i \in 1..Len(f) |-> FromCsvRow(f[i])]

\* save_reminder_to_csv(reminder_data)
save_reminder_to_csv(f, reminder_data) ==
    to_csv(Append(load_reminders(f), reminder_data))

\* the row mask dropped: every row is assigned
SetStatus_AnyRow(r, reminder_id, status) == [r EXCEPT !.status = Str(status)]

SetStatus(r, reminder_id, status) ==
    IF r.reminder_id = reminder_id THEN [r EXCEPT !.status = Str(status)]
    ELSE r

\* the row picked by its position instead of by its reminder_id
update_reminder_status_ByPosition(f, reminder_id, status) ==
    LET reminders == load_reminders(f)
    IN to_csv([i \in 1..Len(reminders) |->
                  IF i = reminder_id
                  THEN [reminders[i] EXCEPT !.status = Str(status)]
                  ELSE reminders[i]])

\* update_reminder_status(reminder_id, status)
update_reminder_status(f, reminder_id, status) ==
    LET reminders == load_reminders(f)
    IN to_csv([i \in 1..Len(reminders) |->
                  SetStatus(reminders[i], reminder_id, status)])

Pending == <<"pending">>
Completed == <<"completed">>

\* the overdue test with the status left out
OverdueRow_AnyStatus(r, today) == is_overdue(r.date, today)

\* "is_overdue(date) and status == 'pending'"
OverdueRow(r, today) ==
    is_overdue(r.date, today) /\ r.status = Str(Pending)

\* the dashboard's summary metrics
Summary(f, today) ==
    LET reminders == load_reminders(f)
        n == Len(reminders)
    IN [total |-> n,
        pending |-> Cardinality(
            {i \in 1..n : reminders[i].status = Str(Pending)}),
        completed |-> Cardinality(
            {i \in 1..n : reminders[i].status = Str(Completed)}),
        overdue |-> Cardinality(
            {i \in 1..n : OverdueRow(reminders[i], today)})]


---------------------------------------------------------------------------
(* The completion endpoint and the draft *)

\* json.loads results: None (no result), {} (an empty object) or a dict
NoneDraft ==
    [tag |-> "none", title |-> NoneV, category |-> NoneV, date |-> NoneV,
     time |-> NoneV, priority |-> NoneV, notes |-> NoneV, confidence |-> 0]

EmptyDict == [NoneDraft EXCEPT !.tag = "empty"]

DraftFull ==
    [tag |-> "dict", title |-> Str(TextA), category |-> Str(<<"appointment">>),
     date |-> Str(DateD), time |-> Str(TimeT), priority |-> Str(<<"High">>),
     notes |-> Str(TextNotes), confidence |-> 90]

DraftSparse ==
    [tag |-> "dict", title |-> Str(EmptyText), category |-> Str(<<"task">>),
     date |-> NoneV, time |-> NoneV, priority |-> Str(<<"Medium">>),
     notes |-> Str(EmptyText), confidence |-> 50]

\* what the endpoint may answer: the call raises, the text is not JSON, or
\* it is JSON (fenced or not) holding one of the values above
Responses ==
    {[kind |-> "raise", value |-> NoneDraft],
     [kind |-> "nonjson", value |-> NoneDraft],
     [kind |-> "json", value |-> EmptyDict],
     [kind |-> "json", value |-> DraftFull],
     [kind |-> "json", value |-> DraftSparse]}

\* parse_with_gemini(user_input): the parsed JSON, None on any exception
parse_with_gemini(resp) ==
    IF resp.kind = "json" THEN resp.value ELSE NoneDraft

\* Python truthiness of the parse result: None and {} are falsy
DraftTruthy(p) == p.tag = "dict"

\* the result stored without the "if parsed" test
DraftAfterParse_Always(p, held) == p

\* "if parsed: st.session_state.parsed_reminder = parsed"
DraftAfterParse(p, held) == IF DraftTruthy(p) THEN p ELSE held

ErrGemini == "Error calling Gemini API"
ErrTitle == "Title is required."
OkSaved == "Reminder saved!"
NoMsg == ""

---------------------------------------------------------------------------
(* The review form *)

NoForm ==
    [shown |-> FALSE, title |-> <<>>, category |-> <<>>, date |-> <<>>,
     time |-> <<>>, priority |-> <<>>, notes |-> <<>>]

\* the widgets' default values, taken from the draft
FormDefaults(d) ==
    [shown |-> TRUE, title |-> OrEmpty(d.title), category |-> d.category.s,
     date |-> OrEmpty(d.date), time |-> OrEmpty(d.time),
     priority |-> d.priority.s, notes |-> OrEmpty(d.notes)]

\* A widget without a key is identified by its parameters: it keeps what
\* the user entered while its default value stays the same.
Retain(shown, oldDefault, newDefault, current) ==
    IF shown /\ oldDefault = newDefault THEN current ELSE newDefault

FormAfterParse(held, new, cur) ==
    IF ~DraftTruthy(new) THEN cur
    ELSE LET o == IF DraftTruthy(held) THEN FormDefaults(held) ELSE NoForm
             n == FormDefaults(new)
             sh == cur.shown /\ DraftTruthy(held)
         IN [shown |-> TRUE,
             title |-> Retain(sh, o.title, n.title, cur.title),
             category |-> Retain(sh, o.category, n.category, cur.category),
             date |-> Retain(sh, o.date, n.date, cur.date),
             time |-> Retain(sh, o.time, n.time, cur.time),
             priority |-> Retain(sh, o.priority, n.priority, cur.priority),
             notes |-> Retain(sh, o.notes, n.notes, cur.notes)]

\* what the user may set the form to before pressing Save
FormInputs ==
    {[shown |-> TRUE, title |-> Blank, category |-> <<"task">>,
      date |-> DateD, time |-> EmptyText, priority |-> <<"Low">>,
      notes |-> TextNotes],
     [shown |-> TRUE, title |-> TextPadA, category |-> <<"follow-up">>,
      date |-> DateGarbage, time |-> Blank, priority |-> <<"Low">>,
      notes |-> TextNotes]}

InputTexts == {Blank, TextA}

\* the title tested without strip()
TitleMissing_NoStrip(title) == title = <<>>

\* "if not title.strip()"
TitleMissing(title) == Strip(title) = <<>>

\* "x if x.strip() else None"
TextOrNone(t) == IF Strip(t) # <<>> THEN Str(t) ELSE NoneV

\* the id generated at save: len(reminders) + 1
NewId(f) == Len(load_reminders(f)) + 1

\* the reminder_data dict built by the Save handler (it has no "notes" key)
reminder_data(f, fm, input) ==
    [reminder_id |-> NewId(f), raw_input |-> Str(input),
     title |-> Str(fm.title), category |-> Str(fm.category),
     date |-> TextOrNone(fm.date), time |-> TextOrNone(fm.time),
     priority |-> Str(fm.priority), notes |-> Absent,
     status |-> Str(Pending), created_at |-> Str(NowIso)]

\* the draft left in the session after a save
DraftAfterSave_Keep(held) == held

\* "st.session_state.parsed_reminder = None" after a save
DraftAfterSave(held) == NoneDraft

---------------------------------------------------------------------------
(* Initial state: the script's first run, no file yet *)

Init ==
    /\ file = <<>>
    /\ parsed_reminder = NoneDraft
    /\ api_enabled \in BOOLEAN
    /\ user_input = EmptyText
    /\ form = NoForm
    /\ parsed = NoneDraft
    /\ parsed_from = EmptyText
    /\ api_calls = 0
    /\ day = 0
    /\ msg = NoMsg
    /\ hist = <<>>

(* The user types into the text area (enabled only with an API key). *)
EditInput ==
    /\ api_enabled
    /\ \E t \in InputTexts : user_input' = t
    /\ msg' = NoMsg
    /\ parsed' = NoneDraft
    /\ api_calls' = 0
    /\ UNCHANGED <<file, parsed_reminder, api_enabled, form, parsed_from,
                   day, hist>>

(* "Parse with AI" is pressed. *)
ParseWithAI ==
    /\ api_enabled
    /\ IF Strip(user_input) = <<>>
       THEN /\ parsed' = NoneDraft
            /\ api_calls' = 0
            /\ msg' = NoMsg
            /\ UNCHANGED <<parsed_reminder, form, parsed_from>>
       ELSE \E resp \in Responses :
            /\ parsed' = parse_with_gemini(resp)
            /\ api_calls' = 1
            /\ msg' = IF resp.kind = "json" THEN NoMsg ELSE ErrGemini
            /\ parsed_reminder' = DraftAfterParse(parsed', parsed_reminder)
            /\ form' = FormAfterParse(parsed_reminder, parsed', form)
            /\ parsed_from' = IF DraftTruthy(parsed') THEN user_input
                              ELSE parsed_from
    /\ UNCHANGED <<file, api_enabled, user_input, day, hist>>

(* "Save Reminder" is pressed, the form holding fm. *)
SaveReminder ==
    /\ DraftTruthy(parsed_reminder)
    /\ \E fm \in FormInputs \cup {form} :
       /\ fm.shown
          /\ parsed' = NoneDraft
       /\ api_calls' = 0
       /\ IF TitleMissing(fm.title)
          THEN /\ msg' = ErrTitle
               /\ form' = fm
               /\ UNCHANGED <<file, parsed_reminder, parsed_from>>
          ELSE /\ Len(file) < MaxRows
               /\ file' = save_reminder_to_csv(
                              file, reminder_data(file, fm, user_input))
               /\ msg' = OkSaved
               /\ parsed_reminder' = DraftAfterSave(parsed_reminder)
               /\ form' = [fm EXCEPT !.shown = FALSE]
               /\ UNCHANGED parsed_from
    /\ UNCHANGED <<api_enabled, user_input, day, hist>>

(* "Mark as Completed" is pressed on a row the dashboard shows as open. *)
MarkCompleted ==
    /\ \E i \in 1..Len(file) :
       LET reminder == load_reminders(file)[i]
           is_completed == reminder.status = Str(Completed)
       IN /\ ~is_completed
          /\ file' = update_reminder_status(
                         file, reminder.reminder_id,
                         IF is_completed THEN Pending ELSE Completed)
    /\ msg' = NoMsg
    /\ parsed' = NoneDraft
    /\ api_calls' = 0
    /\ UNCHANGED <<parsed_reminder, api_enabled, user_input, form,
                   parsed_from, day, hist>>

(* "Undo" is pressed on a completed row. *)
Undo ==
    /\ \E i \in 1..Len(file) :
       LET reminder == load_reminders(file)[i]
       IN /\ reminder.status = Str(Completed)
          /\ file' = update_reminder_status(
                         file, reminder.reminder_id, Pending)
    /\ msg' = NoMsg
    /\ parsed' = NoneDraft
    /\ api_calls' = 0
    /\ UNCHANGED <<parsed_reminder, api_enabled, user_input, form,
                   parsed_from, day, hist>>

(* Midnight passes. *)
Tick ==
    /\ day < MaxDay
    /\ day' = day + 1
    /\ UNCHANGED <<file, parsed_reminder, api_enabled, user_input, form,
                   parsed, parsed_from, api_calls, msg, hist>>

Next ==
    \/ EditInput
    \/ ParseWithAI
    \/ SaveReminder
    \/ MarkCompleted
    \/ Undo
    \/ Tick

Spec == Init /\ [][Next]_vars

---------------------------------------------------------------------------
(* The backing file edited from outside the program: a row is removed. *)

RemoveAt(f, i) == SubSeq(f, 1, i - 1) \o SubSeq(f, i + 1, Len(f))

ExternalRemove ==
    /\ \E i \in 1..Len(file) : file' = RemoveAt(file, i)
    /\ UNCHANGED <<parsed_reminder, api_enabled, user_input, form, parsed,
                   parsed_from, api_calls, day, msg, hist>>

NextExt ==
    \/ Next
    \/ ExternalRemove

SpecExt == Init /\ [][NextExt]_vars

---------------------------------------------------------------------------
(* The store on its own: save_reminder_to_csv and update_reminder_status   *)
(* applied to rows and ids of the caller's choosing.                       *)

StoreCreated == FormatDate(StartDate) \o <<"T", "00:00:00">>

\* Reminder rows a caller may append: date absent or the empty string,
\* notes empty or not, either status
StoreShapes ==
    {[reminder_id |-> 0, raw_input |-> Str(TextA), title |-> Str(TextA),
      category |-> Str(<<"task">>), date |-> NoneV, time |-> Str(TimeT),
      priority |-> Str(<<"Low">>), notes |-> Str(TextNotes),
      status |-> Str(Pending), created_at |-> Str(StoreCreated)],
     [reminder_id |-> 0, raw_input |-> Str(TextB), title |-> Str(NAText),
      category |-> Str(<<"appointment">>), date |-> Str(EmptyText),
      time |-> NoneV, priority |-> Str(<<"High">>),
      notes |-> Str(EmptyText), status |-> Str(Completed),
      created_at |-> Str(StoreCreated)]}

StoreRows ==
    {[sh EXCEPT !.reminder_id = id] : sh \in StoreShapes, id \in 1..MaxRows}

NoRow == CHOOSE sh \in StoreShapes : sh.date = NoneV

Push(entry) == <<entry>> \o (IF hist = <<>> THEN <<>> ELSE <<hist[1]>>)

StoreAppend ==
    /\ Len(file) < MaxRows
    /\ \E r \in StoreRows :
       /\ file' = save_reminder_to_csv(file, r)
       /\ hist' = Push([op |-> "append", id |-> r.reminder_id,
                        status |-> r.status.s, row |-> r, before |-> file])
    /\ UNCHANGED <<parsed_reminder, api_enabled, user_input, form, parsed,
                   parsed_from, api_calls, day, msg>>

StoreUpdate ==
    /\ \E id \in 1..MaxRows, status \in {Pending, Completed} :
       /\ file' = update_reminder_status(file, id, status)
       /\ hist' = Push([op |-> "update", id |-> id, status |-> status,
                        row |-> NoRow, before |-> file])
    /\ UNCHANGED <<parsed_reminder, api_enabled, user_input, form, parsed,
                   parsed_from, api_calls, day, msg>>

NextStore ==
    \/ StoreAppend
    \/ StoreUpdate

InitStore == Init /\ ~api_enabled

SpecStore == InitStore /\ [][NextStore]_vars

---------------------------------------------------------------------------
(* Properties *)

Rows == load_reminders(file)

\* two values agree: both missing, or the same string
Same(v, w) == (IsNa(v) /\ IsNa(w)) \/ (v.k = "str" /\ w.k = "str" /\ v.s = w.s)

SameRow(a, b) ==
    /\ a.reminder_id = b.reminder_id
    /\ Same(a.raw_input, b.raw_input) /\ Same(a.title, b.title)
    /\ Same(a.category, b.category) /\ Same(a.date, b.date)
    /\ Same(a.time, b.time) /\ Same(a.priority, b.priority)
    /\ Same(a.notes, b.notes) /\ Same(a.status, b.status)
    /\ Same(a.created_at, b.created_at)

IsBlankText(t) == \A i \in 1..Len(t) : t[i] \in Whitespace

WellFormedDate(t) == FromIso(t) # InvalidDate

WellFormedTime(t) ==
    /\ Len(t) = 5
    /\ \A i \in {1, 2, 4, 5} : IsDigit(t[i])
    /\ t[3] = ":"
    /\ TextToInt(SubSeq(t, 1, 2)) < 24
    /\ TextToInt(SubSeq(t, 4, 5)) < 60

\* the rows of `orig` with the status of every row whose id is `id` set
WithStatus(orig, id, status) ==
    [i \in 1..Len(orig) |->
        IF orig[i].reminder_id = id
        THEN [orig[i] EXCEPT !.status = Str(status)] ELSE orig[i]]

\* C1: after append(r), load_all holds a row equal to r in every field; a
\* row appended with an empty-string field is read back with that empty
\* string, not as a missing value.
C1_RoundTrip ==
    (hist # <<>> /\ hist[1].op = "append") =>
        \E i \in 1..Len(Rows) : SameRow(Rows[i], hist[1].row)

\* C2: no two rows of the store share a reminder_id, also after rows were
\* removed from the file from outside.
C2_UniqueIds ==
    \A i, j \in 1..Len(Rows) :
        i # j => Rows[i].reminder_id # Rows[j].reminder_id

\* C3: a Save whose title is empty or only whitespace leaves the file as it
\* was, keeps the draft, and reports that the title is required.
C3_BlankTitleRejected ==
    [][(SaveReminder /\ IsBlankText(form'.title)) =>
          /\ file' = file
          /\ parsed_reminder' = parsed_reminder
          /\ DraftTruthy(parsed_reminder')
          /\ msg' = ErrTitle]_vars

C3_Witness ==
    /\ msg = ErrTitle
    /\ form.shown /\ form.title = Blank
    /\ DraftTruthy(parsed_reminder)
    /\ Len(file) >= 1

\* C4: a parse that fails (the call raises, or the answer is not JSON) makes
\* one call to the endpoint and leaves the held draft, the form and the file
\* as they were.
C4_FailedParseKeepsState ==
    [][(ParseWithAI /\ msg' = ErrGemini) =>
          /\ parsed_reminder' = parsed_reminder
          /\ form' = form
          /\ parsed_from' = parsed_from
          /\ file' = file
          /\ api_calls' = 1]_vars

C4_Witness ==
    /\ msg = ErrGemini
    /\ api_calls = 1
    /\ DraftTruthy(parsed_reminder)
    /\ form.shown

\* C5: update_status(id, "completed") then update_status(id, "pending"), id
\* being the id of an existing row, leaves the rows with that id as they
\* were except for status "pending", and every other row as it was.
C5_Applies ==
    /\ Len(hist) = 2
    /\ hist[1].op = "update" /\ hist[2].op = "update"
    /\ hist[1].id = hist[2].id
    /\ hist[2].status = Completed /\ hist[1].status = Pending
    /\ \E i \in 1..Len(hist[2].before) :
          load_reminders(hist[2].before)[i].reminder_id = hist[1].id

C5_CompleteThenPending ==
    C5_Applies =>
        Rows = WithStatus(load_reminders(hist[2].before), hist[1].id, Pending)

C5_Witness ==
    /\ C5_Applies
    /\ LET orig == load_reminders(hist[2].before)
       IN \E i, j \in 1..Len(orig) :
             /\ orig[i].reminder_id = hist[1].id
             /\ orig[i].status = Str(Completed)
             /\ orig[j].reminder_id # hist[1].id

\* C6: every stored date is missing or a well-formed YYYY-MM-DD date, and
\* every stored time is missing or a well-formed HH:MM time.
C6_WellFormedDateTime ==
    \A i \in 1..Len(Rows) :
        /\ IsNa(Rows[i].date) \/ WellFormedDate(Rows[i].date.s)
        /\ IsNa(Rows[i].time) \/ WellFormedTime(Rows[i].time.s)

\* C7: the summary has total = pending + completed and overdue <= pending,
\* overdue being the number of pending rows dated strictly before today.
StrictlyPast(v) ==
    v.k = "str" /\ WellFormedDate(v.s) /\ DateBefore(FromIso(v.s), Today)

C7_SummaryConsistent ==
    LET sm == Summary(file, Today)
    IN /\ sm.total = sm.pending + sm.completed
       /\ sm.overdue <= sm.pending
       /\ sm.overdue = Cardinality(
              {i \in 1..Len(Rows) :
                  Rows[i].status = Str(Pending) /\ StrictlyPast(Rows[i].date)})

C7_Witness ==
    /\ Len(Rows) = 2
    /\ Summary(file, Today).overdue = 1
    /\ Summary(file, Today).completed = 1
    /\ \A i \in 1..Len(Rows) : StrictlyPast(Rows[i].date)

\* C8 as stated: a draft appears only through a successful parse, none is
\* held after a successful save, and once a parse has been started with a
\* draft held, what is held is that parse's result or nothing.
C8_DiscardedOnNewParse ==
    [][/\ (DraftTruthy(parsed_reminder') /\ parsed_reminder' # parsed_reminder)
            => (ParseWithAI /\ DraftTruthy(parsed')
                /\ parsed_reminder' = parsed')
       /\ (SaveReminder /\ msg' = OkSaved) => ~DraftTruthy(parsed_reminder')
       /\ (ParseWithAI /\ api_calls' = 1 /\ DraftTruthy(parsed_reminder))
            => (parsed_reminder' = parsed' \/ ~DraftTruthy(parsed_reminder'))
      ]_vars

\* C8 amended: a draft appears only through a successful parse, none is
\* held after a successful save, a successful parse replaces the held draft
\* by its result, and a parse that yields no draft leaves the held one.
C8_DraftLifecycle ==
    [][/\ (DraftTruthy(parsed_reminder') /\ parsed_reminder' # parsed_reminder)
            => (ParseWithAI /\ DraftTruthy(parsed')
                /\ parsed_reminder' = parsed')
       /\ (SaveReminder /\ msg' = OkSaved) => ~DraftTruthy(parsed_reminder')
       /\ (ParseWithAI /\ api_calls' = 1 /\ DraftTruthy(parsed'))
            => parsed_reminder' = parsed'
       /\ (ParseWithAI /\ ~DraftTruthy(parsed'))
            => parsed_reminder' = parsed_reminder
      ]_vars

C8_Witness ==
    /\ msg = OkSaved
    /\ ~DraftTruthy(parsed_reminder)
    /\ ~form.shown
    /\ Len(file) >= 1

\* C9: update_status(id, s) sets the status of the rows whose reminder_id
\* is id and changes nothing else; with no such row the store reads as
\* before and nothing is reported.
C9_UpdateFrame ==
    (hist # <<>> /\ hist[1].op = "update") =>
        LET orig == load_reminders(hist[1].before)
        IN /\ Rows = WithStatus(orig, hist[1].id, hist[1].status)
           /\ (\A i \in 1..Len(orig) : orig[i].reminder_id # hist[1].id)
                 => Rows = orig
           /\ msg = NoMsg

C9_Witness ==
    /\ hist # <<>> /\ hist[1].op = "update"
    /\ Len(Rows) >= 1
    /\ \A i \in 1..Len(Rows) : Rows[i].reminder_id # hist[1].id

\* what a form text is stored as: blank is absent, anything else itself
Stored(v, t) == IF IsBlankText(t) THEN IsNa(v) ELSE v = Str(t)

\* C10: a successful save appends one row holding the form's title,
\* category, date, time, priority and notes, status pending and the text
\* the draft was parsed from, and leaves the earlier rows as they were.
C10_FaithfulCommit ==
    [][(SaveReminder /\ msg' = OkSaved) =>
          LET before == load_reminders(file)
              after == load_reminders(file')
              r == after[Len(after)]
          IN /\ Len(after) = Len(before) + 1
             /\ \A i \in 1..Len(before) : after[i] = before[i]
             /\ r.title = Str(form'.title)
             /\ r.category = Str(form'.category)
             /\ Stored(r.date, form'.date)
             /\ Stored(r.time, form'.time)
             /\ r.priority = Str(form'.priority)
             /\ Stored(r.notes, form'.notes)
             /\ r.status = Str(Pending)
             /\ r.raw_input = Str(parsed_from)]_vars

=============================================================================
